---- MODULE Spec2Model ----
(***************************************************************************)
(* Model of the isocoder client (src/isocoder): one blocking call of       *)
(* TVAE(...) / run_tvae(...): argument checks, payload construction, the   *)
(* POST /run submission, the GET /status poll loop with its deadline, and  *)
(* the helper clean_base_url.                                              *)
(*                                                                         *)
(* Time is an integer number of seconds.  time.sleep(d) advances the clock *)
(* by d; every HTTP call advances it by at least one second and by at most *)
(* request_timeout_s.  Strings that the code only compares or forwards are *)
(* TLA+ strings; the base URL, which the code edits character by           *)
(* character, is a sequence of one-character strings.                      *)
(***************************************************************************)
EXTENDS Integers, Sequences, FiniteSets, TLC

\* ---------------------------------------------------------------- bounds
MaxTimeout == 5          \* largest timeout_s tried with the short poll intervals
MaxPollInterval == 2     \* largest short poll_interval_s tried
MaxLatency == 2          \* largest request_timeout_s tried
MaxUrlLen == 4           \* longest string given to clean_base_url alone

\* ------------------------------------------------------- python values
None == "<None>"
EmptyDict == "{}"

\* --------------------------------------------------------- errors.py
IsocoderError == "IsocoderError"
AuthError == "AuthError"
RemoteJobError == "RemoteJobError"
ClientTimeout == "TimeoutError"

\* variant: TimeoutError derived from Exception instead of IsocoderError
Bases_TimeoutNotClient ==
  [c \in {IsocoderError, AuthError, RemoteJobError, ClientTimeout,
          "ValueError", "TypeError", "JSONDecodeError", "AttributeError",
          "Exception"} |->
     CASE c = IsocoderError -> "Exception"
       [] c = AuthError -> IsocoderError
       [] c = RemoteJobError -> IsocoderError
       [] c = "JSONDecodeError" -> "ValueError"
       [] OTHER -> "Exception"]

\* the direct base class of every exception class the call can raise
Bases ==
  [c \in {IsocoderError, AuthError, RemoteJobError, ClientTimeout,
          "ValueError", "TypeError", "JSONDecodeError", "AttributeError",
          "Exception"} |->
     CASE c = IsocoderError -> "Exception"
       [] c = AuthError -> IsocoderError
       [] c = RemoteJobError -> IsocoderError
       [] c = ClientTimeout -> IsocoderError
       [] c = "JSONDecodeError" -> "ValueError"
       [] OTHER -> "Exception"]

RECURSIVE IsSubclass(_, _)
IsSubclass(c, b) ==
  IF c = b THEN TRUE
  ELSE IF c = "Exception" THEN FALSE
  ELSE IsSubclass(Bases[c], b)

\* ----------------------------------------------------------- utils.py
Chars == {"a", "/", " "}
IsSpace(c) == c = " "

RECURSIVE lstrip(_)
lstrip(s) ==
  IF s # <<>> /\ IsSpace(Head(s)) THEN lstrip(Tail(s)) ELSE s

RECURSIVE rstrip(_)
rstrip(s) ==
  IF s # <<>> /\ IsSpace(s[Len(s)]) THEN rstrip(SubSeq(s, 1, Len(s) - 1)) ELSE s

strip(s) == rstrip(lstrip(s))

endswith_slash(s) == s # <<>> /\ s[Len(s)] = "/"

\* variant: the slash is removed before the whitespace is trimmed
clean_base_url_SlashFirst(url) ==
  strip(IF endswith_slash(url) THEN SubSeq(url, 1, Len(url) - 1) ELSE url)

clean_base_url(url) ==
  LET t == strip(url)
  IN  IF endswith_slash(t) THEN SubSeq(t, 1, Len(t) - 1) ELSE t

np_to_base64_npz(arr) ==
  IF arr = "ndarray" THEN "b64(ndarray)" ELSE None

\* ------------------------------------------------------------- api.py
DEFAULT_BACKOFF_CAP == 5

\* variant: 403 not treated as an authentication failure
IsAuthStatus_Only401(code) == code = 401

\* api.py 83 and 105: status_code in (401, 403)
IsAuthStatus(code) == code \in {401, 403}

\* variant: only server errors count as errors
IsErrorStatus_Only5xx(code) == code >= 500

\* api.py 85 and 109: status_code >= 400
IsErrorStatus(code) == code >= 400

Min(a, b) == IF a < b THEN a ELSE b

RECURSIVE StringsUpTo(_)
StringsUpTo(n) ==
  IF n = 0 THEN {<<>>}
  ELSE LET shorter == StringsUpTo(n - 1)
       IN  shorter \cup {Append(s, c) : s \in {t \in shorter : Len(t) = n - 1}, c \in Chars}

\* argument values tried
HFRepos == {"", "you/repo"}
ModalIds == {<<>>, <<"a">>, <<"a", "/">>, <<" ">>, <<"/">>}
ModalKeys == {None, "", "key"}
DataValues == {None, "ndarray", "list"}
Filenames == {None, "x.npy"}
Timeouts == (-1)..MaxTimeout
PollIntervals == 0..MaxPollInterval
\* poll intervals at and above the backoff cap, with a timeout that leaves
\* room for a second poll after the capped backoff
SlowPollIntervals == {DEFAULT_BACKOFF_CAP, DEFAULT_BACKOFF_CAP + 1}
SlowTimeouts == {DEFAULT_BACKOFF_CAP + 3}
Timings == (Timeouts \X PollIntervals) \cup (SlowTimeouts \X SlowPollIntervals)
RequestTimeouts == 1..MaxLatency

\* what the backend can answer
StatusCodes == {200, 401, 403, 404, 500}
BodyKinds == {"object", "not_json", "not_object"}
JobIds == {None, "", "J1", "J2"}
States == {None, "running", "succeeded", "failed"}
Results == {None, EmptyDict, "{x:1}"}
Errors == {None, "", "oom"}
Text == "<text>"

\* GET /status bodies: "result" comes with succeeded, "error" with failed
StatusBodies ==
  {b \in [state : States, result : Results, error : Errors] :
     /\ (b.result # None => b.state = "succeeded")
     /\ (b.error # None => b.state = "failed")}

NoJs == [state |-> None, result |-> None, error |-> None]
NoPayload == [dataset |-> None, data_b64 |-> None]

Event(op, job, d, resp) == [op |-> op, job |-> job, d |-> d, resp |-> resp]

VARIABLES
  HF_repo, Modal_ID, Modal_Key, Data, dataset_filename,
  timeout_s, poll_interval_s, request_timeout_s,
  pc, base_url, payload, r_status, job_id, deadline, result, last_state,
  s_status, js, raised, message, cause, self_result,
  now, log, calls

args == <<HF_repo, Modal_ID, Modal_Key, Data, dataset_filename,
          timeout_s, poll_interval_s, request_timeout_s>>
locals == <<base_url, payload, r_status, job_id, deadline, result, last_state,
            s_status, js>>
outcome == <<raised, message, cause, self_result>>
vars == <<args, pc, locals, outcome, now, log, calls>>

InitLocals ==
  /\ pc = "check_args"
  /\ base_url = <<>>
  /\ payload = NoPayload
  /\ r_status = 0
  /\ job_id = None
  /\ deadline = 0
  /\ result = None
  /\ last_state = None
  /\ s_status = 0
  /\ js = NoJs
  /\ raised = None
  /\ message = <<>>
  /\ cause = None
  /\ self_result = None
  /\ now = 0
  /\ log = <<>>
  /\ calls = 0

Init ==
  /\ HF_repo \in HFRepos
  /\ Modal_ID \in ModalIds
  /\ Modal_Key \in ModalKeys
  /\ Data \in DataValues
  /\ dataset_filename \in Filenames
  /\ \E t \in Timings : timeout_s = t[1] /\ poll_interval_s = t[2]
  /\ request_timeout_s \in RequestTimeouts
  /\ InitLocals

Raise(cls, msg, why) ==
  /\ raised' = cls
  /\ message' = msg
  /\ cause' = why
  /\ pc' = "done"
  /\ UNCHANGED self_result

\* variant: the bearer key is not checked
CheckArgs_NoKeyCheck ==
  /\ pc = "check_args"
  /\ IF HF_repo = ""
       THEN Raise("ValueError", <<"HF_repo is required">>, "missing_arg")
     ELSE IF Modal_ID = <<>>
       THEN Raise("ValueError", <<"Modal_ID (backend base URL) is required">>, "missing_arg")
     ELSE IF Data = None /\ dataset_filename = None
       THEN Raise("ValueError", <<"Provide either Data (numpy array) or dataset_filename">>, "missing_arg")
     ELSE /\ pc' = "build"
          /\ UNCHANGED outcome
  /\ UNCHANGED <<args, locals, now, log, calls>>

\* api.py 47-55
CheckArgs ==
  /\ pc = "check_args"
  /\ IF HF_repo = ""
       THEN Raise("ValueError", <<"HF_repo is required">>, "missing_arg")
     ELSE IF Modal_ID = <<>>
       THEN Raise("ValueError", <<"Modal_ID (backend base URL) is required">>, "missing_arg")
     ELSE IF Modal_Key = None \/ Modal_Key = ""
       THEN Raise("ValueError", <<"Modal_Key (bearer) is required">>, "missing_arg")
     ELSE IF Data = None /\ dataset_filename = None
       THEN Raise("ValueError", <<"Provide either Data (numpy array) or dataset_filename">>, "missing_arg")
     ELSE /\ pc' = "build"
          /\ UNCHANGED outcome
  /\ UNCHANGED <<args, locals, now, log, calls>>

\* variant: the filename is kept when the raw array is given
BuildPayload_KeepDataset ==
  /\ pc = "build"
  /\ base_url' = clean_base_url(Modal_ID)
  /\ IF Data # None
       THEN IF np_to_base64_npz(Data) = None
              THEN /\ Raise("TypeError", <<"Data must be a numpy.ndarray">>, "bad_data_type")
                   /\ UNCHANGED payload
              ELSE /\ payload' = [dataset |-> dataset_filename,
                                  data_b64 |-> np_to_base64_npz(Data)]
                   /\ pc' = "submit"
                   /\ UNCHANGED outcome
       ELSE /\ payload' = [dataset |-> dataset_filename, data_b64 |-> None]
            /\ pc' = "submit"
            /\ UNCHANGED outcome
  /\ UNCHANGED <<args, r_status, job_id, deadline, result, last_state, s_status, js,
                 now, log, calls>>

\* api.py 57-75
BuildPayload ==
  /\ pc = "build"
  /\ base_url' = clean_base_url(Modal_ID)
  /\ IF Data # None
       THEN IF np_to_base64_npz(Data) = None
              THEN /\ Raise("TypeError", <<"Data must be a numpy.ndarray">>, "bad_data_type")
                   /\ UNCHANGED payload
              ELSE /\ payload' = [dataset |-> None, data_b64 |-> np_to_base64_npz(Data)]
                   /\ pc' = "submit"
                   /\ UNCHANGED outcome
       ELSE /\ payload' = [dataset |-> dataset_filename, data_b64 |-> None]
            /\ pc' = "submit"
            /\ UNCHANGED outcome
  /\ UNCHANGED <<args, r_status, job_id, deadline, result, last_state, s_status, js,
                 now, log, calls>>

\* api.py 78-90
SubmitJob ==
  /\ pc = "submit"
  /\ \E lat \in 1..request_timeout_s :
       /\ now' = now + lat
       /\ \/ \* requests.RequestException (79-81)
             /\ log' = Append(log, Event("POST", None, 0, "transport"))
             /\ Raise(IsocoderError, <<"Failed to contact backend /run: ", "e">>,
                      "submit_transport")
             /\ UNCHANGED <<r_status, job_id>>
          \/ \* an answer arrives; requests.post raises MissingSchema, a
             \* RequestException, for the URL "/run" of an empty base_url
             /\ base_url # <<>>
             /\ \E code \in StatusCodes :
               /\ r_status' = code
               /\ IF IsAuthStatus(code)
                    THEN /\ log' = Append(log, Event("POST", None, 0, "http_error"))
                         /\ Raise(AuthError, <<"Auth failed: ", Text>>, "submit_auth")
                         /\ UNCHANGED job_id
                  ELSE IF IsErrorStatus(code)
                    THEN /\ log' = Append(log, Event("POST", None, 0, "http_error"))
                         /\ Raise(IsocoderError,
                                  <<"Backend /run error ", ToString(code), ": ", Text>>,
                                  "submit_http")
                         /\ UNCHANGED job_id
                  ELSE \E kind \in BodyKinds :
                         IF kind = "not_json"
                           THEN /\ log' = Append(log, Event("POST", None, 0, "malformed"))
                                /\ Raise("JSONDecodeError", <<"Expecting value">>,
                                         "submit_malformed")
                                /\ UNCHANGED job_id
                         ELSE IF kind = "not_object"
                           THEN /\ log' = Append(log, Event("POST", None, 0, "malformed"))
                                /\ Raise("AttributeError", <<"no attribute 'get'">>,
                                         "submit_malformed")
                                /\ UNCHANGED job_id
                         ELSE \E jid \in JobIds :
                                /\ log' = Append(log, Event("POST", jid, 0, "ok"))
                                /\ job_id' = jid
                                /\ IF jid = None \/ jid = ""
                                     THEN Raise(IsocoderError,
                                                <<"Backend /run missing job_id">>,
                                                "missing_job_id")
                                     ELSE /\ pc' = "start_polling"
                                          /\ UNCHANGED outcome
  /\ UNCHANGED <<args, base_url, payload, deadline, result, last_state, s_status, js, calls>>

\* api.py 93-95
StartPolling ==
  /\ pc = "start_polling"
  /\ deadline' = now + timeout_s
  /\ result' = None
  /\ last_state' = None
  /\ pc' = "loop"
  /\ UNCHANGED <<args, base_url, payload, r_status, job_id, s_status, js, outcome,
                 now, log, calls>>

\* variant: the loop also gives up after two transport failures
LoopTest_RetryBudget ==
  /\ pc = "loop"
  /\ pc' = IF now < deadline
              /\ Cardinality({i \in 1..Len(log) : log[i].resp = "transport"}) < 2
            THEN "get" ELSE "finish"
  /\ UNCHANGED <<args, locals, outcome, now, log, calls>>

\* variant: the deadline is recomputed on every iteration
LoopTest_SlidingDeadline ==
  /\ pc = "loop"
  /\ deadline' = now + timeout_s
  /\ pc' = IF now < deadline' THEN "get" ELSE "finish"
  /\ UNCHANGED <<args, base_url, payload, r_status, job_id, result, last_state,
                 s_status, js, outcome, now, log, calls>>

\* variant: the loop still polls when the clock equals the deadline
LoopTest_Inclusive ==
  /\ pc = "loop"
  /\ pc' = IF now <= deadline THEN "get" ELSE "finish"
  /\ UNCHANGED <<args, locals, outcome, now, log, calls>>

\* api.py 97
LoopTest ==
  /\ pc = "loop"
  /\ pc' = IF now < deadline THEN "get" ELSE "finish"
  /\ UNCHANGED <<args, locals, outcome, now, log, calls>>

\* variant: the result field is dropped
ResultOrEmpty_Dropped(res) == EmptyDict

\* api.py 117-119: result = js.get("result") or {}
ResultOrEmpty(res) == IF res = None \/ res = EmptyDict THEN EmptyDict ELSE res

\* variant: the error field is dropped
ErrorOrUnknown_Dropped(err) == "unknown error"

\* api.py 120-121: err = js.get("error") or "unknown error"
ErrorOrUnknown(err) == IF err = None \/ err = "" THEN "unknown error" ELSE err

\* api.py 98-122
PollStatus ==
  /\ pc = "get"
  /\ \E lat \in 1..request_timeout_s :
       /\ now' = now + lat
       /\ \/ \* requests.RequestException (100-103): back off, then continue
             /\ log' = Append(log, Event("GET", job_id, 0, "transport"))
             /\ pc' = "backoff"
             /\ UNCHANGED <<s_status, js, result, last_state, outcome>>
          \/ \E code \in StatusCodes :
               /\ s_status' = code
               /\ IF IsAuthStatus(code)
                    THEN /\ log' = Append(log, Event("GET", job_id, 0, "http_error"))
                         /\ Raise(AuthError, <<"Auth failed during polling: ", Text>>,
                                  "poll_auth")
                         /\ UNCHANGED <<js, result, last_state>>
                  ELSE IF code = 404
                    THEN /\ log' = Append(log, Event("GET", job_id, 0, "http_error"))
                         /\ Raise(IsocoderError,
                                  <<"Unknown job_id (was state lost on backend?)">>,
                                  "poll_404")
                         /\ UNCHANGED <<js, result, last_state>>
                  ELSE IF IsErrorStatus(code)
                    THEN /\ log' = Append(log, Event("GET", job_id, 0, "http_error"))
                         /\ Raise(IsocoderError,
                                  <<"Backend /status error ", ToString(code), ": ", Text>>,
                                  "poll_http")
                         /\ UNCHANGED <<js, result, last_state>>
                  ELSE \E kind \in BodyKinds :
                         IF kind = "not_json"
                           THEN /\ log' = Append(log, Event("GET", job_id, 0, "malformed"))
                                /\ Raise("JSONDecodeError", <<"Expecting value">>,
                                         "poll_malformed")
                                /\ UNCHANGED <<js, result, last_state>>
                         ELSE IF kind = "not_object"
                           THEN /\ log' = Append(log, Event("GET", job_id, 0, "malformed"))
                                /\ Raise("AttributeError", <<"no attribute 'get'">>,
                                         "poll_malformed")
                                /\ UNCHANGED <<js, result, last_state>>
                         ELSE \E body \in StatusBodies :
                                /\ js' = body
                                /\ last_state' = body.state
                                /\ IF body.state = "succeeded"
                                     THEN /\ log' = Append(log, Event("GET", job_id, 0, "succeeded"))
                                          /\ result' = ResultOrEmpty(body.result)
                                          /\ pc' = "finish"
                                          /\ UNCHANGED outcome
                                   ELSE IF body.state = "failed"
                                     THEN /\ log' = Append(log, Event("GET", job_id, 0, "failed"))
                                          /\ Raise(RemoteJobError,
                                                   <<"Remote job failed: ", ErrorOrUnknown(body.error)>>,
                                                   "job_failed")
                                          /\ UNCHANGED result
                                   ELSE /\ log' = Append(log, Event("GET", job_id, 0, "nonterminal"))
                                        /\ pc' = "sleep"
                                        /\ UNCHANGED <<result, outcome>>
  /\ UNCHANGED <<args, base_url, payload, r_status, job_id, deadline, calls>>

\* variant: the backoff sleeps the full poll interval
Backoff_Uncapped ==
  /\ pc = "backoff"
  /\ log' = Append(log, Event("SLEEP", None, poll_interval_s, "transport"))
  /\ now' = now + poll_interval_s
  /\ pc' = "loop"
  /\ UNCHANGED <<args, locals, outcome, calls>>

\* variant: a transport failure on a poll submits the job again
Backoff_Resubmit ==
  /\ pc = "backoff"
  /\ log' = Append(log, Event("SLEEP", None, Min(DEFAULT_BACKOFF_CAP, poll_interval_s), "transport"))
  /\ now' = now + Min(DEFAULT_BACKOFF_CAP, poll_interval_s)
  /\ pc' = "submit"
  /\ UNCHANGED <<args, locals, outcome, calls>>

\* api.py 102-103
Backoff ==
  /\ pc = "backoff"
  /\ log' = Append(log, Event("SLEEP", None, Min(DEFAULT_BACKOFF_CAP, poll_interval_s), "transport"))
  /\ now' = now + Min(DEFAULT_BACKOFF_CAP, poll_interval_s)
  /\ pc' = "loop"
  /\ UNCHANGED <<args, locals, outcome, calls>>

\* variant: no sleep between two polls
SleepInterval_NoSleep ==
  /\ pc = "sleep"
  /\ pc' = "loop"
  /\ UNCHANGED <<args, locals, outcome, now, log, calls>>

\* variant: the sleep between two polls is capped like the backoff
SleepInterval_Capped ==
  /\ pc = "sleep"
  /\ log' = Append(log, Event("SLEEP", None, Min(DEFAULT_BACKOFF_CAP, poll_interval_s),
                              "nonterminal"))
  /\ now' = now + Min(DEFAULT_BACKOFF_CAP, poll_interval_s)
  /\ pc' = "loop"
  /\ UNCHANGED <<args, locals, outcome, calls>>

\* api.py 124
SleepInterval ==
  /\ pc = "sleep"
  /\ log' = Append(log, Event("SLEEP", None, poll_interval_s, "nonterminal"))
  /\ now' = now + poll_interval_s
  /\ pc' = "loop"
  /\ UNCHANGED <<args, locals, outcome, calls>>

\* variant: a result that arrives after the deadline is discarded
Finish_DeadlineRecheck ==
  /\ pc = "finish"
  /\ IF result = None \/ now >= deadline
       THEN Raise(ClientTimeout, <<"TVAE remote job timeout">>, "deadline")
       ELSE /\ self_result' = result
            /\ pc' = "done"
            /\ UNCHANGED <<raised, message, cause>>
  /\ UNCHANGED <<args, locals, now, log, calls>>

\* api.py 126-129
Finish ==
  /\ pc = "finish"
  /\ IF result = None
       THEN Raise(ClientTimeout, <<"TVAE remote job timeout">>, "deadline")
       ELSE /\ self_result' = result
            /\ pc' = "done"
            /\ UNCHANGED <<raised, message, cause>>
  /\ UNCHANGED <<args, locals, now, log, calls>>

Next ==
  \/ CheckArgs
  \/ BuildPayload
  \/ SubmitJob
  \/ StartPolling
  \/ LoopTest
  \/ PollStatus
  \/ Backoff
  \/ SleepInterval
  \/ Finish

Spec == Init /\ [][Next]_vars

\* ------------------------------------------- clean_base_url on its own
\* utils.py 13-15, applied to its own output
InitUrl ==
  /\ HF_repo = "you/repo"
  /\ Modal_ID \in StringsUpTo(MaxUrlLen)
  /\ Modal_Key = "key"
  /\ Data = "ndarray"
  /\ dataset_filename = None
  /\ timeout_s = 0
  /\ poll_interval_s = 0
  /\ request_timeout_s = 1
  /\ pc = "clean"
  /\ base_url = Modal_ID
  /\ payload = NoPayload
  /\ r_status = 0
  /\ job_id = None
  /\ deadline = 0
  /\ result = None
  /\ last_state = None
  /\ s_status = 0
  /\ js = NoJs
  /\ raised = None
  /\ message = <<>>
  /\ cause = None
  /\ self_result = None
  /\ now = 0
  /\ log = <<>>
  /\ calls = 0

CleanUrl ==
  /\ pc = "clean"
  /\ calls < 2
  /\ base_url' = clean_base_url(base_url)
  /\ calls' = calls + 1
  /\ UNCHANGED <<args, pc, payload, r_status, job_id, deadline, result, last_state,
                 s_status, js, outcome, now, log>>

NextUrl == CleanUrl

SpecUrl == InitUrl /\ [][NextUrl]_vars

\* every step of the call is taken once it is enabled: the calling thread
\* runs, each HTTP call returns within request_timeout_s, each sleep ends
SpecFair == Init /\ [][Next]_vars /\ WF_vars(Next)

\* ------------------------------------------------------------ the log
Gets == SelectSeq(log, LAMBDA e : e.op = "GET")
Posts == SelectSeq(log, LAMBDA e : e.op = "POST")
Sleeps == SelectSeq(log, LAMBDA e : e.op = "SLEEP")
LastGet == Gets[Len(Gets)]
Contains(msg, part) == part = "" \/ \E i \in 1..Len(msg) : msg[i] = part

\* the GETs of this call answered n >= 0 times with a non-terminal state and
\* then with "succeeded"
NonterminalThenSucceeded ==
  /\ Gets # <<>>
  /\ LastGet.resp = "succeeded"
  /\ \A i \in 1..(Len(Gets) - 1) : Gets[i].resp = "nonterminal"

\* C1: after a successful submit that returned job J, n non-terminal status
\* answers and then {state: succeeded, result: R}, the call returns R after
\* exactly n+1 GETs, all for job J, with exactly n sleeps of poll_interval_s,
\* one between each two consecutive GETs.
C1_PollUntilSucceeded ==
  (pc = "done" /\ NonterminalThenSucceeded /\ js.result # None) =>
    LET n == Len(Gets) - 1
    IN  /\ raised = None
        /\ self_result = js.result
        /\ Len(log) = 2 * n + 2
        /\ log[1].op = "POST" /\ log[1].resp = "ok"
        /\ \A k \in 0..n : log[2 * k + 2].op = "GET" /\ log[2 * k + 2].job = log[1].job
        /\ \A k \in 1..n : log[2 * k + 1].op = "SLEEP" /\ log[2 * k + 1].d = poll_interval_s
        /\ Len(Sleeps) = n

C1_Witness ==
  /\ pc = "done"
  /\ NonterminalThenSucceeded
  /\ Len(Gets) = 3
  /\ self_result = "{x:1}"
  /\ poll_interval_s = 1

ArgsMissing ==
  \/ HF_repo = ""
  \/ Modal_ID = <<>>
  \/ Modal_Key \in {None, ""}
  \/ (Data = None /\ dataset_filename = None)

\* C2: when the dataset repo, the base URL or the bearer key is missing or
\* empty, or neither Data nor dataset_filename is given, the call ends with
\* the configuration error and no HTTP request is ever issued.
C2_MissingArgsNoNetwork ==
  ArgsMissing =>
    /\ log = <<>>
    /\ pc \in {"check_args", "done"}
    /\ (pc = "done" => raised = "ValueError" /\ cause = "missing_arg")

C2_Witness ==
  /\ pc = "done"
  /\ HF_repo # "" /\ Modal_ID # <<>> /\ Modal_Key = "key"
  /\ Data = None /\ dataset_filename = None
  /\ raised = "ValueError"
  /\ log = <<>>

\* C3: at most one POST /run is issued, it comes before every GET, and every
\* GET /status uses the job id which that POST returned.
C3_SubmitOnceSameJob ==
  /\ Len(Posts) <= 1
  /\ \A i \in 1..Len(log) : log[i].op = "POST" => i = 1
  /\ \A i \in 1..Len(log) :
       log[i].op = "GET" =>
         /\ log[1].op = "POST" /\ log[1].resp = "ok"
         /\ log[i].job = log[1].job
         /\ log[i].job \notin {None, ""}

C3_Witness ==
  /\ pc = "done"
  /\ Len(Gets) >= 3
  /\ \E i \in 1..Len(Gets) : Gets[i].resp = "transport"
  /\ \E i \in 1..Len(Gets) : Gets[i].resp = "nonterminal"
  /\ log[1].job = "J2"

C5_DeadlineRaisesTimeout ==
  /\ (/\ pc = "done"
      /\ Posts # <<>> /\ log[1].resp = "ok" /\ log[1].job \notin {None, ""}
      /\ \A i \in 1..Len(Gets) : Gets[i].resp \in {"transport", "nonterminal"}) =>
       /\ raised = ClientTimeout
       /\ now >= deadline
  /\ (pc = "finish" /\ result = None) => now >= deadline
  /\ raised = ClientTimeout => now >= deadline

C5_Witness ==
  /\ pc = "done"
  /\ raised = ClientTimeout
  /\ Cardinality({i \in 1..Len(Gets) : Gets[i].resp = "transport"}) >= 3
  /\ \E i \in 1..Len(Gets) : Gets[i].resp = "nonterminal"

\* C6: a transport failure on a status poll neither ends the poll loop nor
\* reaches the caller: the client sleeps min(5, poll_interval_s), polls the
\* same job again if the deadline has not passed, and a later "succeeded"
\* answer still makes the call return that result.
C6_TransportFailureRetried ==
  /\ \A i \in 1..Len(log) :
       (log[i].op = "GET" /\ log[i].resp = "transport") =>
         /\ (i = Len(log) => pc = "backoff" /\ raised = None)
         /\ (i < Len(log) =>
               /\ log[i + 1].op = "SLEEP"
               /\ log[i + 1].d = Min(DEFAULT_BACKOFF_CAP, poll_interval_s))
         /\ (i + 1 = Len(log) =>
               /\ pc \in {"loop", "get", "finish", "done"}
               /\ (pc = "get" => now < deadline)
               /\ (pc \in {"finish", "done"} => now >= deadline)
               /\ (pc = "done" => raised = ClientTimeout))
         /\ (i + 1 < Len(log) =>
               log[i + 2].op = "GET" /\ log[i + 2].job = log[i].job)
  /\ (pc = "done" /\ Gets # <<>> /\ LastGet.resp = "succeeded") =>
       /\ raised = None
       /\ self_result = (IF js.result = None THEN EmptyDict ELSE js.result)

C6_Witness ==
  /\ pc = "done"
  /\ poll_interval_s > DEFAULT_BACKOFF_CAP
  /\ Len(Gets) = 2
  /\ Gets[1].resp = "transport"
  /\ Gets[2].resp = "succeeded"
  /\ self_result = "{x:1}"

\* C7: when POST /run answers 401 or 403 the call raises AuthError and issues
\* no GET /status.
C7_SubmitAuthError ==
  r_status \in {401, 403} =>
    /\ pc = "done"
    /\ raised = AuthError
    /\ Gets = <<>>
    /\ Len(log) = 1

C7_Witness ==
  /\ pc = "done"
  /\ r_status = 403
  /\ raised = AuthError

\* C8: when a status poll answers 2xx with state "failed", the call raises
\* RemoteJobError whose message contains the answer's error field ("unknown
\* error" when the field is absent), and no GET or sleep follows that poll.
C8_FailedRaisesRemoteJobError ==
  (Gets # <<>> /\ LastGet.resp = "failed") =>
    /\ pc = "done"
    /\ js.state = "failed"
    /\ raised = RemoteJobError
    /\ Contains(message, IF js.error = None THEN "unknown error" ELSE js.error)
    /\ log[Len(log)].op = "GET"
    /\ self_result = None

C8_Witness ==
  /\ pc = "done"
  /\ Gets # <<>> /\ LastGet.resp = "failed"
  /\ js.error = "oom"
  /\ Len(Gets) >= 2

\* the failures which the code reports with its own error classes
ClientCauses ==
  {"submit_transport", "submit_auth", "submit_http", "missing_job_id",
   "poll_auth", "poll_404", "poll_http", "job_failed", "deadline"}

\* C9 as stated: every error kind the call raises, the configuration error
\* for missing arguments included, is a subtype of IsocoderError.
C9_AllErrorsAreClientErrors ==
  (pc = "done" /\ cause \in ClientCauses \cup {"missing_arg"}) =>
    IsSubclass(raised, IsocoderError)

\* C9: the client, auth, remote-job and timeout errors are subtypes of
\* IsocoderError; the configuration error for missing arguments is a
\* ValueError, which is not.
C9_ClientErrorsShareBase ==
  /\ (pc = "done" /\ cause \in ClientCauses) =>
       /\ IsSubclass(raised, IsocoderError)
       /\ raised \in {IsocoderError, AuthError, RemoteJobError, ClientTimeout}
  /\ (pc = "done" /\ cause = "missing_arg") =>
       /\ raised = "ValueError"
       /\ ~IsSubclass(raised, IsocoderError)
  /\ raised = ClientTimeout <=> cause = "deadline"
  /\ raised = RemoteJobError <=> cause = "job_failed"
  /\ raised = AuthError <=> cause \in {"submit_auth", "poll_auth"}

C9_Witness ==
  /\ pc = "done"
  /\ raised = ClientTimeout
  /\ cause = "deadline"
  /\ Gets # <<>>

\* the trimmed input ends in a slash that follows another slash or a space
BadTail(u) ==
  LET t == strip(u)
  IN  Len(t) >= 2 /\ t[Len(t)] = "/" /\ t[Len(t) - 1] \in {"/", " "}

\* C10 as stated: clean_base_url is idempotent, a second application changes
\* nothing.
C10_Idempotent == [][calls = 1 => base_url' = base_url]_vars

\* C10: a second application of clean_base_url changes nothing, except for
\* inputs whose trimmed form ends in a slash preceded by another slash or by
\* whitespace, where it strips once more.
C10_IdempotentUnlessBadTail ==
  [][calls = 1 => ((base_url' = base_url) <=> ~BadTail(Modal_ID))]_vars

C10_Witness ==
  /\ calls = 2
  /\ ~BadTail(Modal_ID)
  /\ endswith_slash(strip(Modal_ID))
  /\ Modal_ID # strip(Modal_ID)
  /\ base_url # <<>>

\* C11: on a status poll any HTTP status >= 400 ends the call at once, with
\* no further GET and no sleep: 401 and 403 give AuthError, 404 and every
\* other status >= 400 give the generic client error.
C11_PollHttpErrorTerminal ==
  /\ (Gets # <<>> /\ LastGet.resp = "http_error") =>
       /\ pc = "done"
       /\ log[Len(log)].op = "GET"
       /\ s_status >= 400
       /\ (s_status \in {401, 403} => raised = AuthError)
       /\ (s_status \notin {401, 403} => raised = IsocoderError)
       /\ self_result = None
  /\ s_status >= 400 => (Gets # <<>> /\ LastGet.resp = "http_error")

C11_Witness ==
  /\ pc = "done"
  /\ Len(Gets) >= 2
  /\ s_status = 404
  /\ raised = IsocoderError

\* the submit step failed by transport exception, by an HTTP status >= 400
\* other than 401/403, or by a success answer without a usable job_id
SubmitFailedGeneric ==
  /\ log # <<>>
  /\ log[1].op = "POST"
  /\ \/ log[1].resp = "transport"
     \/ (log[1].resp = "http_error" /\ r_status \notin {401, 403})
     \/ (log[1].resp = "ok" /\ log[1].job \in {None, ""})

\* C12: a submit that fails by transport exception, by an HTTP status >= 400
\* other than 401/403, or by a success answer whose job_id is missing or
\* falsy ends the call with the generic client error after exactly one POST
\* and no GET.
C12_SubmitFailureGeneric ==
  /\ SubmitFailedGeneric =>
       /\ pc = "done"
       /\ raised = IsocoderError
       /\ Len(log) = 1
  /\ (r_status >= 400 /\ r_status \notin {401, 403}) => SubmitFailedGeneric

C12_Witness ==
  /\ pc = "done"
  /\ r_status = 404
  /\ raised = IsocoderError
  /\ Len(log) = 1

\* C13: a malformed body (not JSON, or JSON that is not an object) in a
\* success answer of POST /run or GET /status makes the call fail with an
\* error that is a subtype of the base client error.
C13_MalformedIsClientError ==
  (log # <<>> /\ log[Len(log)].resp = "malformed") =>
    /\ pc = "done"
    /\ IsSubclass(raised, IsocoderError)

\* C14: the deadline is set once, to the time the submit step completed plus
\* timeout_s, before the first poll, and never changes afterwards; a GET is
\* started only while the clock is strictly before the deadline.
C14_DeadlineFixed ==
  /\ [][pc = "start_polling" => (deadline' = now + timeout_s /\ now' = now /\ log' = log)]_vars
  /\ [][pc # "start_polling" => deadline' = deadline]_vars
  /\ [][(Len(log') > Len(log) /\ log'[Len(log')].op = "GET") => now < deadline]_vars
  /\ [](pc = "get" => now < deadline)
  /\ [](pc = "start_polling" => Gets = <<>>)

C14_Witness ==
  /\ pc = "get"
  /\ Len(Gets) >= 2
  /\ timeout_s > 0
  /\ now < deadline

\* the outcomes the call is said to have
OutcomeKinds ==
  {"result", "configuration", "client", "auth", "remote_job", "timeout"}

HasOutcome(k) ==
  CASE k = "result" -> self_result # None
    [] k = "configuration" -> cause \in {"missing_arg", "bad_data_type"}
    [] k = "client" -> raised = IsocoderError
    [] k = "auth" -> raised = AuthError
    [] k = "remote_job" -> raised = RemoteJobError
    [] k = "timeout" -> raised = ClientTimeout

\* C15 (outcome): a call that has ended has exactly one outcome among result,
\* configuration error, client error, auth error, remote-job error and
\* timeout error.
C15_OneListedOutcome ==
  pc = "done" => Cardinality({k \in OutcomeKinds : HasOutcome(k)}) = 1

\* C15 (termination): every call ends, whatever the transport failures and
\* non-terminal answers.
C15_Terminates == <>(pc = "done")

\* C16: in the body sent to POST /run exactly one of dataset and data_b64 is
\* non-null: the encoded array alone when Data is given (with or without a
\* filename), the filename alone when only the filename is given.
C16_OneDatasetSource ==
  Posts # <<>> =>
    /\ (payload.dataset = None) # (payload.data_b64 = None)
    /\ (Data # None => payload.data_b64 = "b64(ndarray)" /\ payload.dataset = None)
    /\ (Data = None => payload.dataset = dataset_filename /\ payload.data_b64 = None)

C16_Witness ==
  /\ Posts # <<>>
  /\ Data = "ndarray"
  /\ dataset_filename = "x.npy"
  /\ payload.dataset = None

\* C17: a POST /run is only issued with a non-empty normalized base URL; an
\* input that normalizes to the empty string is rejected with the
\* configuration error before any request.
C17_NonEmptyBaseUrl ==
  /\ Posts # <<>> => base_url # <<>>
  /\ clean_base_url(Modal_ID) = <<>> =>
       /\ log = <<>>
       /\ (pc = "done" => cause \in {"missing_arg", "bad_data_type"})

\* C18: a poll that was started before the deadline and answers "succeeded"
\* makes the call return the result even when the deadline has passed by
\* then; TimeoutError is raised only when no poll saw "succeeded".
C18_LateSuccessReturned ==
  /\ (pc = "done" /\ Gets # <<>> /\ LastGet.resp = "succeeded") =>
       /\ raised = None
       /\ self_result # None
  /\ raised = ClientTimeout =>
       \A i \in 1..Len(Gets) : Gets[i].resp # "succeeded"

C18_Witness ==
  /\ pc = "done"
  /\ self_result = "{x:1}"
  /\ timeout_s > 0
  /\ now > deadline

\* C19: no sleep comes before the first GET, two consecutive GETs are
\* separated by exactly one sleep, of poll_interval_s after a non-terminal
\* answer and of min(5, poll_interval_s) after a transport failure, and no
\* GET directly follows a GET.
C19_OneSleepBetweenGets ==
  /\ \A i \in 1..Len(log) :
       log[i].op = "SLEEP" =>
         /\ i >= 3
         /\ log[i - 1].op = "GET"
         /\ log[i - 1].resp \in {"nonterminal", "transport"}
         /\ (log[i - 1].resp = "nonterminal" => log[i].d = poll_interval_s)
         /\ (log[i - 1].resp = "transport" =>
               log[i].d = Min(DEFAULT_BACKOFF_CAP, poll_interval_s))
  /\ \A i \in 1..Len(log) :
       log[i].op = "GET" =>
         /\ i >= 2
         /\ (i = 2 => log[1].op = "POST")
         /\ (i > 2 => log[i - 1].op = "SLEEP")

C19_Witness ==
  /\ Len(Gets) >= 3
  /\ Gets[1].resp = "nonterminal"
  /\ Gets[2].resp = "transport"
  /\ poll_interval_s = 1
  /\ Len(Sleeps) = 2

\* C20: with timeout_s <= 0, valid arguments and a successful submit, the job
\* is submitted with exactly one POST, no GET and no sleep happens, and the
\* call raises TimeoutError.
C20_NonPositiveTimeout ==
  timeout_s <= 0 =>
    /\ Gets = <<>>
    /\ Sleeps = <<>>
    /\ Len(Posts) <= 1
    /\ (pc = "done" /\ Posts # <<>> /\ log[1].resp = "ok" /\ log[1].job \notin {None, ""}) =>
         /\ raised = ClientTimeout
         /\ Len(log) = 1

C20_Witness ==
  /\ pc = "done"
  /\ timeout_s = 0
  /\ raised = ClientTimeout
  /\ Len(Posts) = 1
  /\ log[1].job = "J1"

====
